---- MODULE Spec2Model ----
(***************************************************************************)
(* Model of go-workflow-template: the command cmd/app (main.go) and the    *)
(* package pkg/greet (Hello, TestHello, BenchmarkHello).                   *)
(*                                                                         *)
(* Text is modelled by TLA+ strings; Len, \o and SubSeq act on them as on  *)
(* Go strings of ASCII bytes.  Standard output and standard error are the  *)
(* sequences of writes made so far, each write the exact bytes written.    *)
(***************************************************************************)
EXTENDS Integers, Sequences, FiniteSets, TLC

VARIABLES
    version,      \* package-level `var version` of package main
    args,         \* os.Args[1:] of the running process
    pc,           \* position of the process inside main
    showVersion,  \* *showVersion, the value bound to the -version flag
    parseErr,     \* result of flag.Parse: "nil", "help" (ErrHelp) or "fail"
    greeting,     \* value returned by greet.Hello("World") inside main
    stdout,       \* writes made to standard output by this process
    stderr,       \* writes made to standard error by this process
    exitStatus,   \* process exit status, -1 while the process runs
    trace,        \* events the process has performed, in order
    prev,         \* outcome of the previous process of the same binary
    calls,        \* greet harness: calls of Hello made so far, with results
    ti,           \* greet harness: number of TestHello table rows done
    tfailed,      \* greet harness: t.Errorf was called
    bN,           \* greet harness: b.N of BenchmarkHello
    bi            \* greet harness: loop counter i of BenchmarkHello

mainVars  == <<version, args, pc, showVersion, parseErr, greeting,
               stdout, stderr, exitStatus, trace, prev>>
greetVars == <<calls, ti, tfailed, bN, bi>>
vars      == <<version, args, pc, showVersion, parseErr, greeting,
               stdout, stderr, exitStatus, trace, prev,
               calls, ti, tfailed, bN, bi>>

(***************************************************************************)
(* Bounds                                                                  *)
(***************************************************************************)
MaxArgs == 2
MaxNameLen == 1
MaxCalls == 3
MaxN == 2

(***************************************************************************)
(* Input domains                                                           *)
(***************************************************************************)
\* Values of main.version: the placeholder of the source, or one injected
\* by the linker (-ldflags "-X main.version=...").
Versions == {"dev", "v1.2.3"}

\* Command-line words.
Tokens == {"-version", "--version", "-version=false", "-version=maybe",
           "-bogus", "---", "-h", "-help", "--", "foo"}

RECURSIVE SeqsUpTo(_, _)
SeqsUpTo(S, n) ==
    IF n = 0 THEN {<<>>}
    ELSE LET shorter == SeqsUpTo(S, n - 1)
         IN  shorter \cup {Append(s, x) : s \in shorter, x \in S}

ArgVs == SeqsUpTo(Tokens, MaxArgs)

Alphabet == {"o", "!"}

RECURSIVE StringsUpTo(_)
StringsUpTo(n) ==
    IF n = 0 THEN {""}
    ELSE LET shorter == StringsUpTo(n - 1)
         IN  shorter \cup {s \o c : s \in shorter, c \in Alphabet}

Names == StringsUpTo(MaxNameLen) \cup {"World", "Go", "Benchmark"}

(***************************************************************************)
(* pkg/greet                                                               *)
(***************************************************************************)
\* Variant: an empty name is replaced by a default name.
HelloDefaultName(name) ==
    "Hello, " \o (IF name = "" THEN "World" ELSE name) \o "!"

Hello(name) == "Hello, " \o name \o "!"

(***************************************************************************)
(* fmt and flag, as used by main                                           *)
(***************************************************************************)
\* fmt.Println(s) writes s followed by a newline, in one write.
Println(s) == s \o "\n"

Char(s, i) == SubSeq(s, i, i)

\* strconv.ParseBool, as called by the bool flag's Set.
ParseBool(str) ==
    IF str \in {"1", "t", "T", "TRUE", "true", "True"}
    THEN [ok |-> TRUE, val |-> TRUE]
    ELSE IF str \in {"0", "f", "F", "FALSE", "false", "False"}
    THEN [ok |-> TRUE, val |-> FALSE]
    ELSE [ok |-> FALSE, val |-> FALSE]

\* %q of a string of printable ASCII without quotes or backslashes.
Quote(s) == "\"" \o s \o "\""

\* flag's default Usage, two writes: the Fprintf of "Usage of <program>:"
\* and the Fprint of PrintDefaults for the one flag main defines.
Usage == <<"Usage of app:\n", "  -version\n    \tshow version\n">>

\* FlagSet.failf: the Fprintln of the message, then the usage.
Failf(msg) == <<Println(msg)>> \o Usage

\* Index of the first "=" of name that is not its first byte, or 0.
EqualsAt(name) ==
    LET idx == {i \in 2..Len(name) : Char(name, i) = "="}
    IN  IF idx = {} THEN 0
        ELSE CHOOSE i \in idx : \A j \in idx : i <= j

\* FlagSet.parseOne on the remaining arguments fargs with the flag's
\* current value sv.  seen: a flag was consumed; err: "nil", "help", "fail".
ParseOne(fargs, sv) ==
    LET stop(rest) == [seen |-> FALSE, err |-> "nil", args |-> rest,
                       showVersion |-> sv, errOut |-> <<>>]
        fail(rest, msg, v) == [seen |-> FALSE, err |-> "fail", args |-> rest,
                               showVersion |-> v, errOut |-> Failf(msg)]
    IN
    IF Len(fargs) = 0 THEN stop(fargs)
    ELSE
    LET s == Head(fargs) IN
    IF Len(s) < 2 \/ Char(s, 1) # "-" THEN stop(fargs)
    ELSE
    LET numMinuses == IF Char(s, 2) = "-" THEN 2 ELSE 1 IN
    IF numMinuses = 2 /\ Len(s) = 2 THEN stop(Tail(fargs))
    ELSE
    LET full == SubSeq(s, numMinuses + 1, Len(s)) IN
    IF Len(full) = 0 \/ Char(full, 1) = "-" \/ Char(full, 1) = "="
    THEN fail(fargs, "bad flag syntax: " \o s, sv)
    ELSE
    LET eq       == EqualsAt(full)
        hasValue == eq # 0
        value    == IF hasValue THEN SubSeq(full, eq + 1, Len(full)) ELSE ""
        name     == IF hasValue THEN SubSeq(full, 1, eq - 1) ELSE full
        rest     == Tail(fargs)
    IN
    IF name # "version"
    THEN IF name = "help" \/ name = "h"
         THEN [seen |-> FALSE, err |-> "help", args |-> rest,
               showVersion |-> sv, errOut |-> Usage]
         ELSE fail(rest, "flag provided but not defined: -" \o name, sv)
    ELSE IF hasValue
         \* boolValue.Set stores the result of ParseBool also when it
         \* fails, and the result is then false.
         THEN LET b == ParseBool(value) IN
              IF b.ok
              THEN [seen |-> TRUE, err |-> "nil", args |-> rest,
                    showVersion |-> b.val, errOut |-> <<>>]
              ELSE fail(rest, "invalid boolean value " \o Quote(value)
                              \o " for -" \o name \o ": parse error",
                        b.val)
         ELSE [seen |-> TRUE, err |-> "nil", args |-> rest,
               showVersion |-> TRUE, errOut |-> <<>>]

\* FlagSet.Parse: parseOne until it consumes no flag.
RECURSIVE Parse(_, _)
Parse(fargs, sv) ==
    LET r == ParseOne(fargs, sv)
    IN  IF r.seen THEN Parse(r.args, r.showVersion) ELSE r

(***************************************************************************)
(* cmd/app: main                                                           *)
(***************************************************************************)
NoRun == [ran |-> FALSE, bare |-> TRUE, showVersion |-> FALSE, err |-> "nil",
          stdout |-> <<>>, exitStatus |-> 0]

Outcome == [ran |-> TRUE, bare |-> (args = <<>>), showVersion |-> showVersion,
            err |-> parseErr, stdout |-> stdout, exitStatus |-> exitStatus]

GreetInit ==
    /\ calls = <<>>
    /\ ti = 0
    /\ tfailed = FALSE
    /\ bN = 1
    /\ bi = 0

Init ==
    /\ version \in Versions
    /\ args \in ArgVs
    /\ pc = "start"
    /\ showVersion = FALSE
    /\ parseErr = "nil"
    /\ greeting = ""
    /\ stdout = <<>>
    /\ stderr = <<>>
    /\ exitStatus = -1
    /\ trace = <<>>
    /\ prev = NoRun
    /\ GreetInit

\* line 13: showVersion := flag.Bool("version", false, "show version")
FlagBool ==
    /\ pc = "start"
    /\ showVersion' = FALSE
    /\ pc' = "parse"
    /\ UNCHANGED <<version, args, parseErr, greeting, stdout, stderr,
                   exitStatus, trace, prev>>
    /\ UNCHANGED greetVars

\* Variant: the parse error is dropped and main carries on.
FlagParseLenient ==
    /\ pc = "parse"
    /\ LET r == Parse(args, showVersion) IN
       /\ showVersion' = r.showVersion
       /\ parseErr' = r.err
       /\ stderr' = stderr \o r.errOut
    /\ pc' = "branch"
    /\ trace' = Append(trace, "parse")
    /\ UNCHANGED <<version, args, greeting, stdout, exitStatus, prev>>
    /\ UNCHANGED greetVars

\* Variant: every parse error ends the process with status 0.
FlagParseExitZero ==
    /\ pc = "parse"
    /\ LET r == Parse(args, showVersion) IN
       /\ showVersion' = r.showVersion
       /\ parseErr' = r.err
       /\ stderr' = stderr \o r.errOut
       /\ IF r.err = "nil"
          THEN /\ pc' = "branch"
               /\ exitStatus' = exitStatus
               /\ trace' = Append(trace, "parse")
          ELSE /\ pc' = "exited"
               /\ exitStatus' = 0
               /\ trace' = trace \o <<"parse", "exit">>
    /\ UNCHANGED <<version, args, greeting, stdout, prev>>
    /\ UNCHANGED greetVars

\* line 14: flag.Parse() on the ExitOnError command line: on ErrHelp the
\* process exits 0, on any other error it exits 2.
FlagParse ==
    /\ pc = "parse"
    /\ LET r == Parse(args, showVersion) IN
       /\ showVersion' = r.showVersion
       /\ parseErr' = r.err
       /\ stderr' = stderr \o r.errOut
       /\ IF r.err = "nil"
          THEN /\ pc' = "branch"
               /\ exitStatus' = exitStatus
               /\ trace' = Append(trace, "parse")
          ELSE /\ pc' = "exited"
               /\ exitStatus' = (IF r.err = "help" THEN 0 ELSE 2)
               /\ trace' = trace \o <<"parse", "exit">>
    /\ UNCHANGED <<version, args, greeting, stdout, prev>>
    /\ UNCHANGED greetVars

\* Variant: the condition is negated.
BranchInverted ==
    /\ pc = "branch"
    /\ pc' = (IF showVersion THEN "greet" ELSE "version")
    /\ trace' = Append(trace, "branch")
    /\ UNCHANGED <<version, args, showVersion, parseErr, greeting, stdout,
                   stderr, exitStatus, prev>>
    /\ UNCHANGED greetVars

\* line 16: if *showVersion
Branch ==
    /\ pc = "branch"
    /\ pc' = (IF showVersion THEN "version" ELSE "greet")
    /\ trace' = Append(trace, "branch")
    /\ UNCHANGED <<version, args, showVersion, parseErr, greeting, stdout,
                   stderr, exitStatus, prev>>
    /\ UNCHANGED greetVars

\* Variant: the return after printing the version is missing.
PrintVersionNoReturn ==
    /\ pc = "version"
    /\ stdout' = Append(stdout, Println(version))
    /\ pc' = "greet"
    /\ trace' = trace \o <<"read", "write">>
    /\ UNCHANGED <<version, args, showVersion, parseErr, greeting, stderr,
                   exitStatus, prev>>
    /\ UNCHANGED greetVars

\* Variant: the placeholder is printed instead of the variable.
PrintVersionLiteral ==
    /\ pc = "version"
    /\ stdout' = Append(stdout, Println("dev"))
    /\ exitStatus' = 0
    /\ pc' = "exited"
    /\ trace' = trace \o <<"read", "write", "exit">>
    /\ UNCHANGED <<version, args, showVersion, parseErr, greeting, stderr,
                   prev>>
    /\ UNCHANGED greetVars

\* lines 17-18: fmt.Println(version); return
PrintVersion ==
    /\ pc = "version"
    /\ stdout' = Append(stdout, Println(version))
    /\ exitStatus' = 0
    /\ pc' = "exited"
    /\ trace' = trace \o <<"read", "write", "exit">>
    /\ UNCHANGED <<version, args, showVersion, parseErr, greeting, stderr,
                   prev>>
    /\ UNCHANGED greetVars

\* Variant: the greeting is also printed where it is computed.
CallHelloPrinting ==
    /\ pc = "greet"
    /\ greeting' = Hello("World")
    /\ stdout' = Append(stdout, Println(Hello("World")))
    /\ pc' = "print"
    /\ trace' = trace \o <<"call", "write">>
    /\ UNCHANGED <<version, args, showVersion, parseErr, stderr,
                   exitStatus, prev>>
    /\ UNCHANGED greetVars

\* Variant: the last command-line word, when there is one, is greeted.
CallHelloArg ==
    /\ pc = "greet"
    /\ greeting' = Hello(IF args # <<>> THEN args[Len(args)] ELSE "World")
    /\ pc' = "print"
    /\ trace' = Append(trace, "call")
    /\ UNCHANGED <<version, args, showVersion, parseErr, stdout, stderr,
                   exitStatus, prev>>
    /\ UNCHANGED greetVars

\* line 21, the argument of Println: greet.Hello("World")
CallHello ==
    /\ pc = "greet"
    /\ greeting' = Hello("World")
    /\ pc' = "print"
    /\ trace' = Append(trace, "call")
    /\ UNCHANGED <<version, args, showVersion, parseErr, stdout, stderr,
                   exitStatus, prev>>
    /\ UNCHANGED greetVars

\* lines 21-22: fmt.Println(<greeting>); main returns
PrintGreeting ==
    /\ pc = "print"
    /\ stdout' = Append(stdout, Println(greeting))
    /\ exitStatus' = 0
    /\ pc' = "exited"
    /\ trace' = trace \o <<"write", "exit">>
    /\ UNCHANGED <<version, args, showVersion, parseErr, greeting, stderr,
                   prev>>
    /\ UNCHANGED greetVars

\* The binary is started again with command line a: a new process, whose
\* package variables are initialised afresh from the same binary.
Exec(a) ==
    /\ pc = "exited"
    /\ prev' = Outcome
    /\ args' = a
    /\ pc' = "start"
    /\ showVersion' = FALSE
    /\ parseErr' = "nil"
    /\ greeting' = ""
    /\ stdout' = <<>>
    /\ stderr' = <<>>
    /\ exitStatus' = -1
    /\ trace' = <<>>
    /\ UNCHANGED version
    /\ UNCHANGED greetVars

Next ==
    \/ FlagBool
    \/ FlagParse
    \/ Branch
    \/ PrintVersion
    \/ CallHello
    \/ PrintGreeting
    \/ \E a \in ArgVs : Exec(a)

Spec == Init /\ [][Next]_vars

(***************************************************************************)
(* pkg/greet: the test and the benchmark of Hello                          *)
(***************************************************************************)
\* The table of TestHello.
tests == << [name |-> "World", want |-> "Hello, World!"],
            [name |-> "Go",    want |-> "Hello, Go!"],
            [name |-> "",      want |-> "Hello, !"] >>

MainIdle ==
    /\ version = "dev"
    /\ args = <<>>
    /\ pc = "start"
    /\ showVersion = FALSE
    /\ parseErr = "nil"
    /\ greeting = ""
    /\ stdout = <<>>
    /\ stderr = <<>>
    /\ exitStatus = -1
    /\ trace = <<>>
    /\ prev = NoRun

InitGreet ==
    /\ MainIdle
    /\ calls = <<>>
    /\ ti = 0
    /\ tfailed = FALSE
    /\ bN \in 1..MaxN
    /\ bi = 0

\* A caller calls Hello(n) and keeps the result.
CallGreet(n) ==
    /\ Len(calls) < MaxCalls
    /\ calls' = Append(calls, [name |-> n, got |-> Hello(n)])
    /\ UNCHANGED <<ti, tfailed, bN, bi>>
    /\ UNCHANGED mainVars

\* One row of TestHello: got := Hello(tt.name); Errorf when got != tt.want.
TestHelloCase ==
    /\ ti < Len(tests)
    /\ LET tt  == tests[ti + 1]
           got == Hello(tt.name)
       IN  tfailed' = (tfailed \/ got # tt.want)
    /\ ti' = ti + 1
    /\ UNCHANGED <<calls, bN, bi>>
    /\ UNCHANGED mainVars

\* One iteration of BenchmarkHello: Hello("Benchmark"), result dropped.
BenchmarkIter ==
    /\ bi < bN
    /\ Len(Hello("Benchmark")) >= 0
    /\ bi' = bi + 1
    /\ UNCHANGED <<calls, ti, tfailed, bN>>
    /\ UNCHANGED mainVars

NextGreet ==
    \/ \E n \in Names : CallGreet(n)
    \/ TestHelloCase
    \/ BenchmarkIter

SpecGreet == InitGreet /\ [][NextGreet]_vars

(***************************************************************************)
(* Properties of pkg/greet, checked under SpecGreet                        *)
(***************************************************************************)

\* C1: every call Hello(n), for every n including the empty string, returns
\* text made of the seven bytes "Hello, ", then n unchanged, then "!" and
\* nothing else; "World", "Go" and "" give "Hello, World!", "Hello, Go!" and
\* "Hello, !", and no row of TestHello reports an error.
HelloIsConcatenation ==
    /\ \A i \in 1..Len(calls) :
          LET c == calls[i] IN
          /\ Len(c.got) = Len(c.name) + 8
          /\ SubSeq(c.got, 1, 7) = "Hello, "
          /\ SubSeq(c.got, 8, Len(c.got) - 1) = c.name
          /\ SubSeq(c.got, Len(c.got), Len(c.got)) = "!"
          /\ (c.name = "World" => c.got = "Hello, World!")
          /\ (c.name = "Go" => c.got = "Hello, Go!")
          /\ (c.name = "" => c.got = "Hello, !")
    /\ ~tfailed

HelloIsConcatenationWitness ==
    /\ ti = Len(tests)
    /\ ~tfailed
    /\ Len(calls) >= 3
    /\ calls[1] = [name |-> "", got |-> "Hello, !"]
    /\ calls[2] = [name |-> "World", got |-> "Hello, World!"]
    /\ calls[3] = [name |-> "!", got |-> "Hello, !!"]

(***************************************************************************)
(* Properties of cmd/app, checked under Spec                               *)
(***************************************************************************)
InTrace(e) == \E i \in 1..Len(trace) : trace[i] = e

\* C2: a process started with no arguments never reads or prints the
\* version; when it has exited it has made one write to standard output,
\* the line "Hello, World!", nothing on standard error, and its status is 0.
NoArgsGreets ==
    args = <<>> =>
        /\ pc # "version"
        /\ ~InTrace("read")
        /\ pc = "exited" =>
              /\ stdout = <<"Hello, World!\n">>
              /\ stderr = <<>>
              /\ exitStatus = 0
              /\ InTrace("call")

NoArgsGreetsWitness ==
    /\ args = <<>>
    /\ pc = "exited"
    /\ stdout = <<"Hello, World!\n">>
    /\ exitStatus = 0

\* Command lines that set the version switch.
VersionCommandLines == {<<"-version">>, <<"--version">>,
                        <<"-version=false", "--version">>,
                        <<"-version", "foo">>}

\* C3: a process started with the version switch set, once exited, has
\* made one write to standard output, the line holding the value of
\* version, nothing on standard error, and its status is 0; and in no state
\* where the switch is set has the greeting been computed or written.
VersionSwitchPrintsVersion ==
    /\ (pc = "exited" /\ (args \in VersionCommandLines
                          \/ (parseErr = "nil" /\ showVersion))) =>
          /\ stdout = <<version \o "\n">>
          /\ stderr = <<>>
          /\ exitStatus = 0
    /\ showVersion =>
          /\ pc \notin {"greet", "print"}
          /\ ~InTrace("call")
          /\ greeting = ""

VersionSwitchPrintsVersionWitness ==
    /\ args = <<"--version">>
    /\ pc = "exited"
    /\ version = "v1.2.3"
    /\ stdout = <<"v1.2.3\n">>
    /\ exitStatus = 0

\* Classification of command-line words, independent of the parser.
StartsWith(w, p) == Len(w) >= Len(p) /\ SubSeq(w, 1, Len(p)) = p

\* w is the version switch, alone or with a boolean value.
ValidSwitch(w) ==
    \E p \in {"-version", "--version"} :
        \/ w = p
        \/ /\ StartsWith(w, p \o "=")
           /\ ParseBool(SubSeq(w, Len(p) + 2, Len(w))).ok

\* w is written as a flag: it starts with "-" and is neither "-" nor "--".
LooksLikeFlag(w) == Len(w) >= 2 /\ Char(w, 1) = "-" /\ w # "--"

\* w is -h or -help, with one or two dashes, with or without a value.
HelpWord(w) ==
    \E p \in {"-h", "--h", "-help", "--help"} :
        w = p \/ StartsWith(w, p \o "=")

\* w is an unrecognized flag or a malformed one.
UnrecognizedWord(w) == LooksLikeFlag(w) /\ ~ValidSwitch(w)

\* What the leading flags of command line a amount to: the words are read
\* from the left while they are valid version switches; the first other
\* word decides.
RECURSIVE Verdict(_)
Verdict(a) ==
    IF a = <<>> THEN "accept"
    ELSE LET w == Head(a) IN
         IF ValidSwitch(w) THEN Verdict(Tail(a))
         ELSE IF ~LooksLikeFlag(w) THEN "accept"
         ELSE IF HelpWord(w) THEN "help"
         ELSE "reject"

\* The process has written exactly the version line or the greeting line.
PrintedVersionOrGreeting ==
    /\ Len(stdout) = 1
    /\ stdout[1] \in {version \o "\n", "Hello, World!\n"}

\* C4 as stated: a command line containing an unrecognized or malformed
\* flag never reaches the version or the greeting branch and ends with a
\* non-zero status and a diagnostic.
InvalidInputAlwaysRejected ==
    (\E i \in 1..Len(args) : UnrecognizedWord(args[i])) =>
        /\ pc \notin {"version", "greet", "print"}
        /\ pc = "exited" =>
              /\ exitStatus # 0
              /\ stderr # <<>>
              /\ stdout = <<>>

\* C4 amended: when the first word that is not a valid version switch is an
\* undefined flag other than -h/-help, a flag with bad syntax or a version
\* switch with an invalid boolean value, the process reaches neither branch,
\* writes a diagnostic line and the usage text to standard error, nothing to
\* standard output, and exits with status 2; when that word is -h or -help
\* it reaches neither branch, writes only the usage text to standard error
\* and exits with status 0; in every other case, which includes every
\* command line whose unrecognized flags all come after the first
\* positional word or "--", the words from there on are not examined: the
\* process writes nothing to standard error, prints the version or the
\* greeting and exits with status 0.
LeadingInvalidFlagRejected ==
    /\ Verdict(args) = "reject" =>
          /\ pc \notin {"branch", "version", "greet", "print"}
          /\ pc = "exited" =>
                /\ exitStatus = 2
                /\ Len(stderr) = 3
                /\ SubSeq(stderr, 2, 3) = Usage
                /\ stdout = <<>>
    /\ Verdict(args) = "help" =>
          /\ pc \notin {"branch", "version", "greet", "print"}
          /\ pc = "exited" =>
                /\ exitStatus = 0
                /\ stderr = Usage
                /\ stdout = <<>>
    /\ Verdict(args) = "accept" =>
          /\ stderr = <<>>
          /\ pc = "exited" =>
                /\ exitStatus = 0
                /\ PrintedVersionOrGreeting

\* A flag with bad syntax is rejected after a valid switch; the run before
\* it accepted a command line that was not empty.
LeadingInvalidFlagRejectedWitness ==
    /\ args = <<"-version", "---">>
    /\ pc = "exited"
    /\ exitStatus = 2
    /\ stderr = <<"bad flag syntax: ---\n",
                  "Usage of app:\n", "  -version\n    \tshow version\n">>
    /\ stdout = <<>>
    /\ prev.ran
    /\ ~prev.bare
    /\ prev.err = "nil"
    /\ prev.exitStatus = 0
    /\ prev.stdout = <<"Hello, World!\n">>

\* C5 as stated: an exited process has a non-zero status exactly when
\* argument parsing returned an error, and one with status 0 has printed
\* the version or the greeting.
NonZeroIffParseFailed ==
    pc = "exited" =>
        /\ (exitStatus # 0 <=> parseErr # "nil")
        /\ (exitStatus = 0 => PrintedVersionOrGreeting)

\* C5 amended: an exited process has a non-zero status (2) exactly when
\* argument parsing failed with an error other than a help request; one
\* with status 0 has printed the version or the greeting, or was a help
\* request (-h, -help), which prints only the usage text on standard error.
NonZeroIffParseError ==
    pc = "exited" =>
        /\ exitStatus \in {0, 2}
        /\ (exitStatus # 0 <=> Verdict(args) = "reject")
        /\ (exitStatus # 0 <=> parseErr = "fail")
        /\ exitStatus = 0 =>
              \/ PrintedVersionOrGreeting /\ parseErr = "nil"
              \/ /\ parseErr = "help"
                 /\ Verdict(args) = "help"
                 /\ stdout = <<>>
                 /\ stderr = Usage

NonZeroIffParseErrorWitness ==
    /\ args = <<"-version=false", "-h">>
    /\ pc = "exited"
    /\ parseErr = "help"
    /\ exitStatus = 0
    /\ stdout = <<>>
    /\ prev.ran
    /\ prev.exitStatus = 2

\* C8: no step of a process changes the variable version, and the step
\* that prints the version writes the value version has had since start.
VersionImmutable ==
    [][ /\ version' = version
        /\ (pc = "version" /\ Len(stdout') > Len(stdout)) =>
               stdout' = <<version \o "\n">>
      ]_vars

VersionImmutableWitness ==
    /\ pc = "exited"
    /\ showVersion
    /\ version = "v1.2.3"
    /\ stdout = <<"v1.2.3\n">>
    /\ prev.stdout = <<"Hello, World!\n">>
    /\ prev.ran

\* The two sequences of a run that prints.
PrintingRuns == {<<"parse", "branch", "read", "write", "exit">>,
                 <<"parse", "branch", "call", "write", "exit">>}

\* Nothing is written before the parse and the branch are over, no run both
\* reads version and calls Hello, and no run makes more than one write.
WriteDiscipline ==
    /\ pc \in {"start", "parse", "branch"} => stdout = <<>>
    /\ ~(InTrace("read") /\ InTrace("call"))
    /\ Len(stdout) <= 1
    /\ Cardinality({i \in 1..Len(trace) : trace[i] = "write"}) = Len(stdout)

\* C9 as stated: every run that has exited with status 0 is one parse, one
\* branch, then either the call of Hello or the read of version, one write
\* to standard output and the exit, in this order; nothing is written
\* before the parse, the branches exclude each other, and no run makes more
\* than one write.
SuccessfulRunIsFixedSequence ==
    /\ (pc = "exited" /\ exitStatus = 0) =>
          /\ trace \in PrintingRuns
          /\ Len(stdout) = 1
    /\ WriteDiscipline

\* C9 amended: every run that has exited with status 0 is that sequence,
\* except a help request (-h, -help), which is one parse and then the exit,
\* with no branch, no call, no read and no write to standard output; a run
\* is the printing sequence exactly when argument parsing returned no
\* error; nothing is written before the parse, the branches exclude each
\* other, and no run makes more than one write.
RunIsFixedSequenceUnlessHelp ==
    /\ (pc = "exited" /\ exitStatus = 0) =>
          \/ /\ parseErr = "nil"
             /\ trace \in PrintingRuns
             /\ Len(stdout) = 1
          \/ /\ parseErr = "help"
             /\ Verdict(args) = "help"
             /\ trace = <<"parse", "exit">>
             /\ stdout = <<>>
    /\ (pc = "exited" /\ parseErr = "nil") =>
          /\ exitStatus = 0
          /\ trace \in PrintingRuns
    /\ WriteDiscipline

RunIsFixedSequenceUnlessHelpWitness ==
    /\ pc = "exited"
    /\ parseErr = "nil"
    /\ args = <<"foo", "-version">>
    /\ trace = <<"parse", "branch", "call", "write", "exit">>
    /\ prev.ran
    /\ prev.err = "help"
    /\ prev.exitStatus = 0
    /\ prev.stdout = <<>>

\* C10: two runs of the same binary whose command lines both parse and
\* give the version switch the same value have the same standard output and
\* the same exit status, whatever else is on their command lines.
OnlySwitchMatters ==
    (/\ pc = "exited"
     /\ prev.ran
     /\ parseErr = "nil"
     /\ prev.err = "nil"
     /\ prev.showVersion = showVersion) =>
        /\ stdout = prev.stdout
        /\ exitStatus = prev.exitStatus

OnlySwitchMattersWitness ==
    /\ pc = "exited"
    /\ prev.ran
    /\ prev.bare
    /\ prev.err = "nil"
    /\ args = <<"-version=false", "foo">>
    /\ parseErr = "nil"
    /\ ~showVersion
    /\ stdout = prev.stdout
    /\ stdout = <<"Hello, World!\n">>
    /\ exitStatus = prev.exitStatus

====
